---- MODULE Spec2Model ----
(***************************************************************************)
(* The local site of the decentralized VBM regression (src/local.py).      *)
(* One process invocation reads one message from standard input, the       *)
(* dispatcher under __main__ selects local_0, local_1 or local_2, and the  *)
(* handler reads and writes the cache, output and transfer directories.    *)
(* One action of the model is one whole invocation of the process.         *)
(***************************************************************************)
EXTENDS Integers, Sequences, FiniteSets, TLC

(***************************************************************************)
(* Bounds of the model.                                                    *)
(***************************************************************************)
MaxSubjects == 2
NumVoxels == 2
MaxDepth == 2
MaxInvocations == 3

Subjects == 1..MaxSubjects
Voxels == 1..NumVoxels

(***************************************************************************)
(* Optional values: a file that may not exist, a document that may not     *)
(* have been written.                                                      *)
(***************************************************************************)
None == << >>
Some(x) == << x >>
Get(o) == o[1]

(***************************************************************************)
(* float64 values.  NaN is a value of its own and every arithmetic         *)
(* operation propagates it, as IEEE arithmetic does; finite values are     *)
(* integers, small enough here that no operation rounds or overflows.      *)
(***************************************************************************)
NaN == [nan |-> TRUE, v |-> 0]
F(n) == [nan |-> FALSE, v |-> n]
IsNaN(x) == x.nan
Add(a, b) == IF a.nan \/ b.nan THEN NaN ELSE F(a.v + b.v)
Sub(a, b) == IF a.nan \/ b.nan THEN NaN ELSE F(a.v - b.v)
Mul(a, b) == IF a.nan \/ b.nan THEN NaN ELSE F(a.v * b.v)
\* a / n for a positive count n, kept as the exact quotient
Quot(a, n) == [nan |-> a.nan, num |-> a.v, den |-> n]

RECURSIVE SumSeq(_)
\* np.sum of a vector
SumSeq(s) == IF s = << >> THEN F(0) ELSE Add(Head(s), SumSeq(Tail(s)))

(***************************************************************************)
(* What nib.load(path).get_fdata() gives for a subject's image: the file   *)
(* is missing (FileNotFoundError), the file is there but is no readable    *)
(* image (nibabel raises ImageFileError), or a volume, here flattened to   *)
(* its voxels.                                                             *)
(***************************************************************************)
AllNaN == [v \in Voxels |-> NaN]
AllZero == [v \in Voxels |-> F(0)]
Empty == << >>
PartialNaN == [v \in Voxels |-> IF v = 1 THEN NaN ELSE F(1)]
Ramp == [v \in Voxels |-> F(v)]
Volumes == {AllNaN, AllZero, Empty, PartialNaN, Ramp}
Loaded(vol) == [kind |-> "volume", data |-> vol]
Missing == [kind |-> "missing", data |-> Empty]
Corrupt == [kind |-> "corrupt", data |-> Empty]
LoadOutcomes == {Missing, Corrupt} \cup {Loaded(vol) : vol \in Volumes}

(***************************************************************************)
(* Messages.  The covariate table lists subjects (image names) in order,   *)
(* each with its covariate value.                                          *)
(***************************************************************************)
CovOf(s) == s - 1
RECURSIVE TableOf(_, _)
\* the rows of the subjects of S, in increasing order of name, from s on
TableOf(S, s) ==
    IF s > MaxSubjects THEN << >>
    ELSE IF s \in S THEN << [image |-> s, cov |-> CovOf(s)] >> \o TableOf(S, s + 1)
    ELSE TableOf(S, s + 1)
Tables == {TableOf(S, 1) : S \in SUBSET Subjects}
Lambdas == {0, 1}
Thresholds == {0}
VoxelSizes == {4}

\* the value of a computation_phase key at one nesting depth, or no such key
NoTag == "-"
Tags == {"remote_0", "remote_1", "remote_2"}
\* a nested document: entry d is the computation_phase key at depth d
PhaseDocs == [1..MaxDepth -> Tags \cup {NoTag}]

\* the aggregator's per-voxel coefficient vectors and means
X_labels == << "const", "covariate" >>
Cols == 1..Len(X_labels)
\* for one voxel: the global coefficient vector and the global mean
VoxelFits == {[beta |-> [i \in Cols |-> F(0)], mean |-> F(0)],
              [beta |-> [i \in Cols |-> F(1)], mean |-> F(1)]}
GlobalFits == [Voxels -> VoxelFits]

\* args["cache"]: the cache dictionary the runtime carries between phases
EmptyDict == {}
XyDict == {<< "covariates", "X.npy" >>, << "dependents", "y.npy" >>}
CacheDicts == {EmptyDict, XyDict}
DictHas(d, k) == \E e \in d : e[1] = k
DictGet(d, k) == (CHOOSE e \in d : e[1] = k)[2]

VARIABLES
    images,          \* baseDirectory: subject -> what loading its image gives
    cacheDirectory,  \* file name -> optional content
    outputDirectory, \* local_output: optional content
    transferDirectory, \* avg_nifti.nii: optional content
    stdout,          \* the document this invocation wrote to standard output
    phase_doc,       \* the nested computation_phase keys of this invocation's message
    handlers,        \* the handlers this invocation ran, in order
    error,           \* the exception that ended this invocation, or "none"
    input_,          \* the aggregator values local_2 read, when it ran
    covar_left,      \* the covariate table as average_nifti left it, when it ran
    writes,          \* history: per cache file, how many times it was written
    invocations      \* how many times the process has been invoked

vars == << images, cacheDirectory, outputDirectory, transferDirectory, stdout,
           phase_doc, handlers, error, input_, covar_left, writes, invocations >>

CacheFiles == {"args_file", "X.npy", "y.npy"}

(***************************************************************************)
(* Collaborators of local.py that live in other modules of the repository. *)
(***************************************************************************)
RECURSIVE list_recursive(_, _)
\* every computation_phase value of the document, from depth d down
list_recursive(doc, d) ==
    IF d > Len(doc) THEN << >>
    ELSE (IF doc[d] = NoTag THEN << >> ELSE << doc[d] >>) \o list_recursive(doc, d + 1)

\* "x in list"
In(x, list) == \E i \in 1..Len(list) : list[i] = x

\* parse_for_covar_info(args): the covariate table, indexed by image name
parse_for_covar_info(args) == args.input.covariates

\* parse_for_categorical(args): the table here has no categorical covariate
parse_for_categorical(args) == EmptyDict

\* the validity predicate of the parser: the image loads and its volume is
\* not all-NaN, all-zero or empty
SurvivesValidation(row) ==
    /\ images[row.image].kind = "volume"
    /\ images[row.image].data # Empty
    /\ \E v \in Voxels : ~IsNaN(images[row.image].data[v])
    /\ \E v \in Voxels : images[row.image].data[v] # F(0)

\* vbm_parser(original_args): covariate rows and response rows of the
\* subjects of the cached table that pass validation, in table order
vbm_parser(original_args) ==
    LET kept == SelectSeq(parse_for_covar_info(original_args), SurvivesValidation)
    IN  [X |-> kept,
         y |-> [r \in 1..Len(kept) |-> images[kept[r].image].data]]

\* mean_and_len_y(y): per voxel, the mean and the number of responses
mean_and_len_y(y) ==
    [meanY |-> [v \in Voxels |-> Quot(SumSeq([r \in 1..Len(y) |-> y[r][v]]), Len(y))],
     lenY |-> [v \in Voxels |-> Len(y)]]

\* add_site_covariates(args, original_args, X): bias column and covariate
add_site_covariates(X) == [r \in 1..Len(X) |-> << F(1), F(X[r].cov) >>]

\* reg.sum_squared_error(biased_X, y, beta): sum((y - X beta)^2)
sum_squared_error(biased_X, curr_y, beta) ==
    LET pred == [r \in 1..Len(biased_X) |->
                    SumSeq([i \in Cols |-> Mul(biased_X[r][i], beta[i])])]
        res == [r \in 1..Len(biased_X) |-> Sub(curr_y[r], pred[r])]
    IN  SumSeq([r \in 1..Len(biased_X) |-> Mul(res[r], res[r])])

(***************************************************************************)
(* What one invocation does to the world: the exception that ended it, the *)
(* files it wrote, in the order it wrote them, and its stdout document.    *)
(***************************************************************************)
NoEffect(err) ==
    [error |-> err, cache |-> << >>, output |-> None, transfer |-> None,
     stdout |-> None, input_ |-> None, covar_x |-> None]

\* write_file(args, content, 'cache', name) and np.save(cacheDirectory/name)
CacheWrite(name, content) == [file |-> name, content |-> content]

(***************************************************************************)
(* calc_XtransposeX_local and calc_Xtransposey_local                       *)
(***************************************************************************)
calc_XtransposeX_local(biased_X) ==
    [i \in Cols |-> [j \in Cols |->
        SumSeq([r \in 1..Len(biased_X) |-> Mul(biased_X[r][i], biased_X[r][j])])]]

calc_Xtransposey_local(biased_X, y) ==
    [i \in Cols |-> [v \in Voxels |->
        SumSeq([r \in 1..Len(biased_X) |-> Mul(biased_X[r][i], y[r][v])])]]

(***************************************************************************)
(* average_nifti                                                           *)
(***************************************************************************)
\* the test without its count_nonzero clause
IsInvalidVolume_NoZeroTest(image_data) ==
    \/ \A v \in DOMAIN image_data : IsNaN(image_data[v])
    \/ Len(image_data) = 0

\* np.all(np.isnan(d)) or np.count_nonzero(d) == 0 or d.size == 0
IsInvalidVolume(image_data) ==
    \/ \A v \in DOMAIN image_data : IsNaN(image_data[v])
    \/ Cardinality({v \in DOMAIN image_data : image_data[v] # F(0)}) = 0
    \/ Len(image_data) = 0

\* the exceptions of nib.load the loop catches
CaughtOnLoad == {"missing"}

\* covar_x.drop(index=image, inplace=True)
Drop(covar_x, image) == SelectSeq(covar_x, LAMBDA row : row.image # image)

\* appended_data += image_data; appended_data starts as the scalar 0
Accumulate(appended_data, image_data) ==
    IF appended_data = Empty
    THEN [v \in DOMAIN image_data |-> Add(F(0), image_data[v])]
    ELSE [v \in DOMAIN image_data |-> Add(appended_data[v], image_data[v])]

RECURSIVE AverageLoop(_, _, _, _)
\* the loop over covar_x.index, from position i on
AverageLoop(index, i, covar_x, appended_data) ==
    IF i > Len(index)
    THEN [error |-> "none", covar_x |-> covar_x, appended_data |-> appended_data]
    ELSE LET image == index[i].image
             got == images[image]
         IN  IF got.kind = "volume"
             THEN IF IsInvalidVolume(got.data)
                  THEN AverageLoop(index, i + 1, Drop(covar_x, image), appended_data)
                  ELSE AverageLoop(index, i + 1, covar_x,
                                   Accumulate(appended_data, got.data))
             ELSE IF got.kind \in CaughtOnLoad
             THEN AverageLoop(index, i + 1, Drop(covar_x, image), appended_data)
             ELSE [error |-> "ImageFileError", covar_x |-> covar_x,
                   appended_data |-> appended_data]

\* average_nifti that skips the averaging when no subject is left
average_nifti_SkipWhenEmpty(args) ==
    LET covar_x == parse_for_covar_info(args)
        loop == AverageLoop(covar_x, 1, covar_x, Empty)
    IN  IF loop.error # "none"
        THEN [error |-> loop.error, covar_x |-> loop.covar_x, avg_nifti |-> None]
        ELSE IF Len(loop.covar_x) = 0
        THEN [error |-> "none", covar_x |-> loop.covar_x, avg_nifti |-> None]
        ELSE [error |-> "none", covar_x |-> loop.covar_x,
              avg_nifti |-> Some([v \in Voxels |->
                  Quot(loop.appended_data[v], Len(loop.covar_x))])]

\* the error that ends average_nifti, the table it is left with and the
\* average volume it saves
average_nifti(args) ==
    LET covar_x == parse_for_covar_info(args)
        loop == AverageLoop(covar_x, 1, covar_x, Empty)
    IN  IF loop.error # "none"
        THEN [error |-> loop.error, covar_x |-> loop.covar_x, avg_nifti |-> None]
        ELSE IF Len(loop.covar_x) = 0
        THEN [error |-> "IndexError", covar_x |-> loop.covar_x, avg_nifti |-> None]
        ELSE [error |-> "none", covar_x |-> loop.covar_x,
              avg_nifti |-> Some([v \in Voxels |->
                  Quot(loop.appended_data[v], Len(loop.covar_x))])]

(***************************************************************************)
(* local_0                                                                 *)
(***************************************************************************)
local_0(args) ==
    LET categorical_dict == parse_for_categorical(args)
        avg == average_nifti(args)
        output_dict == [categorical_dict |-> categorical_dict,
                        threshold |-> args.input.threshold,
                        voxel_size |-> args.input.voxel_size,
                        avg_nifti |-> "avg_nifti.nii",
                        computation_phase |-> "local_0"]
    IN  IF avg.error # "none"
        THEN [NoEffect(avg.error) EXCEPT !.covar_x = Some(avg.covar_x)]
        ELSE [error |-> "none",
              cache |-> << CacheWrite("args_file", args) >>,
              output |-> None,
              transfer |-> avg.avg_nifti,
              stdout |-> Some([output |-> output_dict, cache |-> EmptyDict]),
              input_ |-> None,
              covar_x |-> Some(avg.covar_x)]

(***************************************************************************)
(* local_1.  The per-voxel diagnostics (local_stats_list) are carried to   *)
(* the output file and read by nothing here; they are left out.  The       *)
(* parser fails on an empty response matrix.                               *)
(***************************************************************************)
local_1(args) ==
    IF cacheDirectory["args_file"] = None
    THEN NoEffect("FileNotFoundError")
    ELSE LET original_args == Get(cacheDirectory["args_file"])
             regularizer_l2 == original_args.input.lambda
             parsed == vbm_parser(original_args)
             y == parsed.y
             stats == mean_and_len_y(y)
             biased_X == add_site_covariates(parsed.X)
             XtransposeX_local == calc_XtransposeX_local(biased_X)
             Xtransposey_local == calc_Xtransposey_local(biased_X, y)
             output_dict == [XtransposeX_local |-> XtransposeX_local,
                             Xtransposey_local |-> Xtransposey_local,
                             mean_y_local |-> stats.meanY,
                             count_local |-> stats.lenY,
                             X_labels |-> X_labels,
                             lambda |-> regularizer_l2]
         IN  IF Len(y) = 0
             THEN NoEffect("DataInsufficiencyError")
             ELSE [error |-> "none",
                   cache |-> << CacheWrite("X.npy", biased_X), CacheWrite("y.npy", y) >>,
                   output |-> Some(output_dict),
                   transfer |-> None,
                   stdout |-> Some([output |-> [computation_phase |-> "local_1"],
                                    cache |-> XyDict]),
                   input_ |-> None,
                   covar_x |-> None]

(***************************************************************************)
(* local_2                                                                 *)
(***************************************************************************)
\* the deviations summed without np.square
SST_voxel_NoSquare(curr_y, mean_y) ==
    LET d == [r \in 1..Len(curr_y) |-> Sub(curr_y[r], mean_y)]
    IN  SumSeq([r \in 1..Len(curr_y) |-> d[r]])

\* np.sum(np.square(np.subtract(curr_y, mean_y_global[voxel])))
SST_voxel(curr_y, mean_y) ==
    LET d == [r \in 1..Len(curr_y) |-> Sub(curr_y[r], mean_y)]
    IN  SumSeq([r \in 1..Len(curr_y) |-> Mul(d[r], d[r])])

\* the cache dictionary of local_1 returned again
local_2_cache_dict_Keys == XyDict

\* the cache dictionary local_2 returns
local_2_cache_dict == EmptyDict

local_2(args) ==
    LET cache_ == args.cache
        input == args.input
    IN  IF ~DictHas(cache_, "covariates")
        THEN NoEffect("KeyError")
        ELSE IF cacheDirectory[DictGet(cache_, "covariates")] = None
        THEN NoEffect("FileNotFoundError")
        ELSE IF ~DictHas(cache_, "dependents")
        THEN NoEffect("KeyError")
        ELSE IF cacheDirectory[DictGet(cache_, "dependents")] = None
        THEN NoEffect("FileNotFoundError")
        ELSE LET biased_X == Get(cacheDirectory[DictGet(cache_, "covariates")])
                 y == Get(cacheDirectory[DictGet(cache_, "dependents")])
                 avg_beta_vector == input.avg_beta_vector
                 mean_y_global == input.mean_y_global
                 curr_y(voxel) == [r \in 1..Len(y) |-> y[r][voxel]]
                 SSE_local == [voxel \in Voxels |->
                     sum_squared_error(biased_X, curr_y(voxel), avg_beta_vector[voxel])]
                 SST_local == [voxel \in Voxels |->
                     SST_voxel(curr_y(voxel), mean_y_global[voxel])]
                 varX_matrix_local == calc_XtransposeX_local(biased_X)
                 output_dict == [SSE_local |-> SSE_local,
                                 SST_local |-> SST_local,
                                 varX_matrix_local |-> varX_matrix_local]
             IN  [error |-> "none",
                  cache |-> << >>,
                  output |-> Some(output_dict),
                  transfer |-> None,
                  stdout |-> Some([output |-> [computation_phase |-> "local_2"],
                                   cache |-> local_2_cache_dict]),
                  input_ |-> Some(input),
                  covar_x |-> None]

(***************************************************************************)
(* __main__: the dispatcher                                                *)
(***************************************************************************)
\* the chain with the round-1 test placed before the round-0 test
Dispatch_Round1First(phase_key) ==
    IF phase_key = << >> THEN "local_0"
    ELSE IF In("remote_1", phase_key) THEN "local_2"
    ELSE IF In("remote_0", phase_key) THEN "local_1"
    ELSE "raise"

\* the chain with a final else that falls back to the Decomposition phase
Dispatch_NoRaise(phase_key) ==
    IF phase_key = << >> THEN "local_0"
    ELSE IF In("remote_0", phase_key) THEN "local_1"
    ELSE "local_2"

\* the chain that tests remote_0 only in the outermost computation_phase key
Dispatch_FirstTagOnly(phase_key) ==
    IF phase_key = << >> THEN "local_0"
    ELSE IF phase_key[1] = "remote_0" THEN "local_1"
    ELSE IF In("remote_1", phase_key) THEN "local_2"
    ELSE "raise"

\* the handler the if/elif chain selects, or "raise"
Dispatch(phase_key) ==
    IF phase_key = << >> THEN "local_0"
    ELSE IF In("remote_0", phase_key) THEN "local_1"
    ELSE IF In("remote_1", phase_key) THEN "local_2"
    ELSE "raise"

\* PHASE_KEY = list(reg.list_recursive(PARSED_ARGS, 'computation_phase'))
PHASE_KEY == list_recursive(phase_doc, 1)

RECURSIVE Written(_, _)
\* the cache directory after the writes ws, in order
Written(dir, ws) ==
    IF ws = << >> THEN dir
    ELSE Written([dir EXCEPT ![Head(ws).file] = Some(Head(ws).content)], Tail(ws))

\* the number of writes to file f among ws
Count(ws, f) == Cardinality({i \in 1..Len(ws) : ws[i].file = f})

\* the invocation ends: its effects reach the directories and stdout
Finish(doc, ran, eff) ==
    /\ phase_doc' = doc
    /\ handlers' = ran
    /\ error' = eff.error
    /\ stdout' = eff.stdout
    /\ input_' = eff.input_
    /\ covar_left' = eff.covar_x
    /\ cacheDirectory' = Written(cacheDirectory, eff.cache)
    /\ writes' = [f \in CacheFiles |-> writes[f] + Count(eff.cache, f)]
    /\ outputDirectory' = IF eff.output = None THEN outputDirectory ELSE eff.output
    /\ transferDirectory' = IF eff.transfer = None THEN transferDirectory ELSE eff.transfer
    /\ invocations' = invocations + 1
    /\ UNCHANGED images

\* The messages of a run: the documents of phase tags, and the payloads the
\* handlers read from args["input"] and args["cache"].
AllMessages ==
    [docs |-> PhaseDocs, tables |-> Tables, lambdas |-> Lambdas,
     fits |-> GlobalFits, dicts |-> CacheDicts]

\* a message with no phase tag: the Initialization phase
Initialization(M) ==
    /\ invocations < MaxInvocations
    /\ \E doc \in M.docs :
        /\ Dispatch(list_recursive(doc, 1)) = "local_0"
        /\ \E covariates \in M.tables, lambda \in M.lambdas,
              threshold \in Thresholds, voxel_size \in VoxelSizes :
            LET PARSED_ARGS == [input |-> [covariates |-> covariates,
                                           lambda |-> lambda,
                                           threshold |-> threshold,
                                           voxel_size |-> voxel_size]]
            IN  Finish(doc, << "local_0" >>, local_0(PARSED_ARGS))

\* a message the aggregator tagged for round 0: the Statistics phase
Statistics(M) ==
    /\ invocations < MaxInvocations
    /\ \E doc \in M.docs :
        /\ Dispatch(list_recursive(doc, 1)) = "local_1"
        /\ Finish(doc, << "local_1" >>, local_1([input |-> doc]))

\* a message the aggregator tagged for round 1: the Decomposition phase
Decomposition(M) ==
    /\ invocations < MaxInvocations
    /\ \E doc \in M.docs :
        /\ Dispatch(list_recursive(doc, 1)) = "local_2"
        /\ \E fit \in M.fits, cache \in M.dicts :
            LET PARSED_ARGS ==
                    [input |-> [avg_beta_vector |-> [v \in Voxels |-> fit[v].beta],
                                mean_y_global |-> [v \in Voxels |-> fit[v].mean]],
                     cache |-> cache]
            IN  Finish(doc, << "local_2" >>, local_2(PARSED_ARGS))

\* any other message: raise ValueError("Error occurred at Local")
ProtocolError(M) ==
    /\ invocations < MaxInvocations
    /\ \E doc \in M.docs :
        /\ Dispatch(list_recursive(doc, 1)) = "raise"
        /\ Finish(doc, << >>, NoEffect("ValueError"))

\* a run starts with empty cache, output and transfer directories
Fresh ==
    /\ cacheDirectory = [f \in CacheFiles |-> None]
    /\ outputDirectory = None
    /\ transferDirectory = None
    /\ stdout = None
    /\ phase_doc = [d \in 1..MaxDepth |-> NoTag]
    /\ handlers = << >>
    /\ error = "none"
    /\ input_ = None
    /\ covar_left = None
    /\ writes = [f \in CacheFiles |-> 0]
    /\ invocations = 0

Init ==
    /\ images \in [Subjects -> LoadOutcomes]
    /\ Fresh

Next ==
    \/ Initialization(AllMessages)
    \/ Statistics(AllMessages)
    \/ Decomposition(AllMessages)
    \/ ProtocolError(AllMessages)

\* every image set, every payload, every document of phase tags
Spec == Init /\ [][Next]_vars

(***************************************************************************)
(* The handlers alone: every image set and every payload, with the phase   *)
(* tag of a message at the top level of the document only.                 *)
(***************************************************************************)
TopLevelDocs ==
    {[d \in 1..MaxDepth |-> IF d = 1 THEN t ELSE NoTag] : t \in Tags \cup {NoTag}}
TopLevelMessages == [AllMessages EXCEPT !.docs = TopLevelDocs]

NextData ==
    \/ Initialization(TopLevelMessages)
    \/ Statistics(TopLevelMessages)
    \/ Decomposition(TopLevelMessages)
    \/ ProtocolError(TopLevelMessages)

SpecData == Init /\ [][NextData]_vars

(***************************************************************************)
(* The dispatcher alone: every document of phase tags and every table,     *)
(* with one regularizer, one global fit and a base directory in which      *)
(* every image is readable.                                                *)
(***************************************************************************)
DispatchMessages ==
    [docs |-> PhaseDocs,
     tables |-> Tables,
     lambdas |-> {0},
     fits |-> {[v \in Voxels |-> [beta |-> [i \in Cols |-> F(1)], mean |-> F(1)]]},
     dicts |-> {XyDict}]

InitDispatch ==
    /\ images = [s \in Subjects |-> Loaded(Ramp)]
    /\ Fresh

NextDispatch ==
    \/ Initialization(DispatchMessages)
    \/ Statistics(DispatchMessages)
    \/ Decomposition(DispatchMessages)
    \/ ProtocolError(DispatchMessages)

SpecDispatch == InitDispatch /\ [][NextDispatch]_vars

(***************************************************************************)
(* Properties                                                              *)
(***************************************************************************)
\* the set T of tags of the message, read off the document itself
T == {phase_doc[d] : d \in 1..MaxDepth} \ {NoTag}
Ran(h) == handlers = << h >>
Succeeded(h) == Ran(h) /\ error = "none"
ArgsTable == Get(cacheDirectory["args_file"]).input.covariates

\* C1: every invocation runs the one handler the ordered rule selects from
\* the tag set T of its message: T empty -> local_0; else remote_0 in T ->
\* local_1; else remote_1 in T -> local_2; else no handler runs and the
\* invocation fails.  No invocation runs two handlers.
C1_DispatchRule ==
    invocations > 0 =>
        /\ Len(handlers) <= 1
        /\ (T = {} => Ran("local_0"))
        /\ (T # {} /\ "remote_0" \in T => Ran("local_1"))
        /\ (T # {} /\ "remote_0" \notin T /\ "remote_1" \in T => Ran("local_2"))
        /\ (T # {} /\ "remote_0" \notin T /\ "remote_1" \notin T =>
                handlers = << >> /\ error = "ValueError")

\* a round-1 tag nested under another tag selected the Decomposition phase
C1_Witness ==
    /\ Succeeded("local_2")
    /\ phase_doc[1] = "remote_2"
    /\ phase_doc[MaxDepth] = "remote_1"

\* C2: an invocation whose message has a tag but neither remote_0 nor
\* remote_1 fails with the protocol error and writes nothing: not to
\* stdout, the output file, the transfer directory or the cache.
C2_ProtocolErrorNoTrace ==
    [][(T' # {} /\ "remote_0" \notin T' /\ "remote_1" \notin T') =>
        /\ error' = "ValueError"
        /\ handlers' = << >>
        /\ stdout' = None
        /\ outputDirectory' = outputDirectory
        /\ transferDirectory' = transferDirectory
        /\ cacheDirectory' = cacheDirectory
        /\ writes' = writes]_vars

\* a protocol error in a run whose cache and output file are not empty
C2_Witness ==
    /\ invocations > 1
    /\ T = {"remote_2"}
    /\ error = "ValueError"
    /\ cacheDirectory["X.npy"] # None
    /\ outputDirectory # None

\* C3 as stated: a message with both remote_0 and remote_1 is rejected with
\* the protocol error and no handler produces output.
C3_AmbiguousRejected ==
    (invocations > 0 /\ "remote_0" \in T /\ "remote_1" \in T) =>
        (handlers = << >> /\ error = "ValueError" /\ stdout = None)

\* C3 as amended: a message with both remote_0 and remote_1 is not rejected;
\* the round-0 test comes first, so the Statistics phase local_1 and no
\* other handler runs, and the protocol error is not raised.
C3_AmbiguousRunsStatistics ==
    (invocations > 0 /\ "remote_0" \in T /\ "remote_1" \in T) =>
        (Ran("local_1") /\ error # "ValueError")

\* a message with remote_1 above remote_0 for which Statistics produced output
C3_Witness ==
    /\ phase_doc[1] = "remote_1"
    /\ phase_doc[MaxDepth] = "remote_0"
    /\ Succeeded("local_1")
    /\ stdout # None

\* C4 as stated: within a run each cache file is written at most once.
C4_WriteOnce == \A f \in CacheFiles : writes[f] <= 1

\* C4, its second half: the content of a cache file never changes once written.
C4_ContentFrozen ==
    [][\A f \in CacheFiles :
        cacheDirectory[f] # None => cacheDirectory'[f] = cacheDirectory[f]]_vars

\* the subject of a table row has an image that loads and passes the test
\* of average_nifti
Usable(row) ==
    /\ images[row.image].kind = "volume"
    /\ ~IsInvalidVolume(images[row.image].data)

\* the cached table as the loop of average_nifti leaves it
InitKept == AverageLoop(ArgsTable, 1, ArgsTable, Empty).covar_x
\* the rows of the cached table the loop of average_nifti drops
InitDropped == {i \in 1..Len(ArgsTable) :
                   \A k \in 1..Len(InitKept) : InitKept[k] # ArgsTable[i]}

\* C5: a subject the Initialization phase dropped has no row in the cached
\* design and response matrices: right after the Statistics phase they hold
\* exactly the rows of the subjects Initialization kept, in table order, so
\* their row count is the table's length minus the number of exclusions; and
\* no cached response row, whenever the Decomposition phase reads it, is an
\* all-NaN, all-zero or empty volume.
C5_DroppedNeverReappears ==
    /\ cacheDirectory["y.npy"] # None =>
        /\ cacheDirectory["X.npy"] # None
        /\ Len(Get(cacheDirectory["X.npy"])) = Len(Get(cacheDirectory["y.npy"]))
        /\ \A r \in 1..Len(Get(cacheDirectory["y.npy"])) :
               ~IsInvalidVolume(Get(cacheDirectory["y.npy"])[r])
    /\ Succeeded("local_1") =>
        /\ Get(cacheDirectory["X.npy"]) =
               [r \in 1..Len(InitKept) |-> << F(1), F(InitKept[r].cov) >>]
        /\ Get(cacheDirectory["y.npy"]) =
               [r \in 1..Len(InitKept) |-> images[InitKept[r].image].data]
        /\ Len(Get(cacheDirectory["y.npy"])) =
               Len(ArgsTable) - Cardinality(InitDropped)

\* Statistics cached the matrices of a full table from which Initialization
\* had dropped an all-zero subject
C5_Witness ==
    /\ Succeeded("local_1")
    /\ Len(ArgsTable) = MaxSubjects
    /\ \E i \in 1..Len(ArgsTable) :
           /\ images[ArgsTable[i].image] = Loaded(AllZero)
           /\ i \in InitDropped
    /\ Len(Get(cacheDirectory["y.npy"])) = MaxSubjects - 1

\* C6: when the loop of the Initialization phase leaves no subject, the
\* phase fails with an error that is not the dispatcher's protocol error,
\* and writes no stdout document, no average volume and no args_file.
C6_ZeroSubjectsFails ==
    [][(handlers' = << "local_0" >> /\ covar_left' = Some(<< >>)) =>
        /\ error' \notin {"none", "ValueError"}
        /\ stdout' = None
        /\ transferDirectory' = transferDirectory
        /\ cacheDirectory' = cacheDirectory
        /\ writes' = writes
        /\ outputDirectory' = outputDirectory]_vars

\* Initialization failed for want of subjects after an earlier one succeeded
C6_Witness ==
    /\ Ran("local_0")
    /\ covar_left = Some(<< >>)
    /\ error = "IndexError"
    /\ cacheDirectory["args_file"] # None
    /\ transferDirectory # None

Finite(m) == \A i \in DOMAIN m : \A j \in DOMAIN m[i] : ~IsNaN(m[i][j])

\* C7 as stated: every XtransposeX_local and Xtransposey_local the
\* Statistics phase writes to the output file is finite.
C7_StatisticsFinite ==
    (outputDirectory # None /\ "XtransposeX_local" \in DOMAIN Get(outputDirectory)) =>
        /\ Finite(Get(outputDirectory).XtransposeX_local)
        /\ Finite(Get(outputDirectory).Xtransposey_local)

\* C8 as stated: the Initialization phase raises no error while the table
\* it was given has a usable subject.
C8_SubjectFailureNeverAborts ==
    (Ran("local_0") /\ covar_left # None
        /\ \E i \in 1..Len(Get(covar_left)) : Usable(Get(covar_left)[i]))
    => error = "none"

\* C9: an invocation of local_2 leaves every cache file as it was, writes
\* nothing to the transfer directory, and when it succeeds it writes the
\* local_output file and a stdout document tagged local_2 whose cache
\* dictionary is empty.
C9_DecompositionLeavesCache ==
    [][handlers' = << "local_2" >> =>
        /\ cacheDirectory' = cacheDirectory
        /\ writes' = writes
        /\ transferDirectory' = transferDirectory
        /\ (error' # "none" => stdout' = None /\ outputDirectory' = outputDirectory)
        /\ (error' = "none" =>
               /\ stdout' # None
               /\ Get(stdout').cache = EmptyDict
               /\ Get(stdout').output.computation_phase = "local_2"
               /\ DOMAIN Get(outputDirectory') =
                      {"SSE_local", "SST_local", "varX_matrix_local"})]_vars

\* the Decomposition phase succeeded on a cache the Statistics phase filled
C9_Witness ==
    /\ Succeeded("local_2")
    /\ cacheDirectory["X.npy"] # None
    /\ cacheDirectory["y.npy"] # None
    /\ "SSE_local" \in DOMAIN Get(outputDirectory)

RECURSIVE BruteSSE(_, _, _, _, _)
\* the squared residuals of voxel v, subject by subject, from row r on
BruteSSE(X, y, beta, v, r) ==
    IF r > Len(y) THEN F(0)
    ELSE LET fit == Add(Mul(X[r][1], beta[1]), Mul(X[r][2], beta[2]))
             res == Sub(y[r][v], fit)
         IN  Add(Mul(res, res), BruteSSE(X, y, beta, v, r + 1))

RECURSIVE BruteSST(_, _, _, _)
\* the squared deviations of voxel v from m, subject by subject, from row r on
BruteSST(y, m, v, r) ==
    IF r > Len(y) THEN F(0)
    ELSE LET dev == Sub(y[r][v], m)
         IN  Add(Mul(dev, dev), BruteSST(y, m, v, r + 1))

\* C10: after a successful Decomposition phase, for every voxel v,
\* SSE_local[v] is the sum over the rows of the cached matrices of
\* (y_v - X beta_v)^2 with the aggregator's beta_v, and SST_local[v] is the
\* sum of (y_v - mean_y_global[v])^2; X and y are the cached X.npy and y.npy.
C10_Decomposition ==
    Succeeded("local_2") =>
        LET X == Get(cacheDirectory["X.npy"])
            y == Get(cacheDirectory["y.npy"])
            out == Get(outputDirectory)
            given == Get(input_)
        IN  \A v \in Voxels :
                /\ out.SSE_local[v] = BruteSSE(X, y, given.avg_beta_vector[v], v, 1)
                /\ out.SST_local[v] = BruteSST(y, given.mean_y_global[v], v, 1)

\* a decomposition over a full table with a finite, non-zero SSE that
\* differs from the SST
C10_Witness ==
    /\ Succeeded("local_2")
    /\ Len(Get(cacheDirectory["y.npy"])) = MaxSubjects
    /\ \E v \in Voxels :
           /\ ~IsNaN(Get(outputDirectory).SSE_local[v])
           /\ ~IsNaN(Get(outputDirectory).SST_local[v])
           /\ Get(outputDirectory).SSE_local[v].v > 0
           /\ Get(outputDirectory).SST_local[v] # Get(outputDirectory).SSE_local[v]
====
